---- MODULE Spec2Model ----
(***************************************************************************)
(* Model of the kernel-loading path of mikanos-rs-loader                   *)
(* (mikanos-rs-loader/src/main.rs): main -> save_memory_map ->             *)
(* load_kernel -> read_file -> load_elf (plan, allocate, copy) -> entry(). *)
(*                                                                         *)
(* usize/u64 are modelled with UsizeBits bits; every addition and          *)
(* subtraction of the source keeps that width.  Rust integer overflow is   *)
(* a panic when the build has overflow checks (debug profile) and wraps    *)
(* otherwise (release profile); the build is chosen in Init.               *)
(***************************************************************************)
EXTENDS Integers, Sequences, FiniteSets, TLC

VARIABLES
    pc,               \* position of main / load_kernel / load_elf
    fatal,            \* "none", or the reason the boot process halted
    overflow_checks,  \* TRUE: arithmetic overflow panics; FALSE: it wraps
    kernel_file,      \* \kernel.elf on the boot volume: payload bytes and its program header table
    elf_data,         \* buffer returned by read_file
    program_headers,  \* prog.program_headers after Elf::parse
    idx,              \* position of the running `for phdr in ...` loop (1-based)
    addr_start,       \* load_elf local
    addr_end,         \* load_elf local
    page_cnt,         \* load_elf local
    alloc_requests,   \* every boot::allocate_pages call made, in order
    alloc_result,     \* "none", "ok" or "err": what the firmware answered
    scratch_classes,  \* memory types the loader used for its own scratch buffers
    mem,              \* physical memory written so far: address -> byte
    src_read,         \* indices of elf_data that were read by the copy loop
    copied,           \* indices of the program headers whose copy completed
    entry_calls       \* number of times entry() was invoked

vars == <<pc, fatal, overflow_checks, kernel_file, elf_data, program_headers, idx,
          addr_start, addr_end, page_cnt, alloc_requests, alloc_result,
          scratch_classes, mem, src_read, copied, entry_calls>>

---------------------------------------------------------------------------
(* Bounds of the model *)

\* width of usize / u64 in bits (64 in the build; scaled down here)
UsizeBits == 16
\* largest number of program headers in the image
MaxPhdrs == 2
\* length of the kernel file in bytes
DataLen == 3

---------------------------------------------------------------------------
(* Program constants *)

Modulus == 2 ^ UsizeBits
usize_MAX == Modulus - 1
page_size == 4096
PT_LOAD == 1
\* p_type values other than PT_LOAD (PT_NOTE, PT_GNU_STACK's low byte)
OtherTypes == {4}
LOADER_DATA == "LOADER_DATA"

---------------------------------------------------------------------------
(* Fixed-width arithmetic *)

AddOverflows(a, b) == a + b > usize_MAX
WrappingAdd(a, b) == (a + b) % Modulus
SubOverflows(a, b) == a < b
WrappingSub(a, b) == (a - b + Modulus) % Modulus
usize_min(a, b) == IF a <= b THEN a ELSE b
usize_max(a, b) == IF a >= b THEN a ELSE b

---------------------------------------------------------------------------
(* Inputs: the images the boot volume may hold *)

\* the file's bytes: elf_data[i] = (salt + i) % 256, so that neighbouring bytes
\* differ and a zero byte occurs in one of the files
ByteSalts == {126, 255}
FileBytes == {[i \in 1..DataLen |-> (salt + i) % 256] : salt \in ByteSalts}
VAddrs == {1, page_size, usize_MAX - 1}
MemSizes == {0, 2, 3}
FileSizes == {0, 2}
Offsets == {1, DataLen - 1, usize_MAX}

LoadHeaders ==
    [p_type : {PT_LOAD}, p_vaddr : VAddrs, p_memsz : MemSizes,
     p_offset : Offsets, p_filesz : FileSizes]
OtherHeaders ==
    [p_type : OtherTypes, p_vaddr : {1, usize_MAX - 1}, p_memsz : {3},
     p_offset : {1}, p_filesz : {0}]
Headers == LoadHeaders \cup OtherHeaders

HeaderTables == UNION {[1..n -> Headers] : n \in 0..MaxPhdrs}
KernelFiles == [bytes : FileBytes, phdrs : HeaderTables]

---------------------------------------------------------------------------
(* State after firmware hands control to main *)

NoMem == [a \in {} |-> 0]

Init ==
    /\ pc = "save_memory_map"
    /\ fatal = "none"
    /\ overflow_checks \in BOOLEAN
    /\ kernel_file \in KernelFiles
    /\ elf_data = <<>>
    /\ program_headers = <<>>
    /\ idx = 1
    /\ addr_start = usize_MAX
    /\ addr_end = 0
    /\ page_cnt = 0
    /\ alloc_requests = <<>>
    /\ alloc_result = "none"
    /\ scratch_classes = {}
    /\ mem = NoMem
    /\ src_read = {}
    /\ copied = {}
    /\ entry_calls = 0

\* a panic (unwrap / expect / overflow / bounds check): the boot process halts
Halt(reason) ==
    /\ pc' = "halt"
    /\ fatal' = reason

---------------------------------------------------------------------------
(* main: save_memory_map, then load_kernel *)

\* save_memory_map: the memory-map buffer is allocated as LOADER_DATA;
\* an Err is turned into a panic by main's expect
SaveMemoryMap ==
    /\ pc = "save_memory_map"
    /\ scratch_classes' = scratch_classes \cup {LOADER_DATA}
    /\ \E ok \in BOOLEAN :
          IF ok THEN pc' = "read_file" /\ fatal' = fatal
                ELSE Halt("save_memory_map")
    /\ UNCHANGED <<overflow_checks, kernel_file, elf_data, program_headers, idx,
                   addr_start, addr_end, page_cnt, alloc_requests, alloc_result,
                   mem, src_read, copied, entry_calls>>

\* read_file: the whole file into a fresh buffer, or Err (load_kernel's `?`,
\* then main's expect)
ReadFile ==
    /\ pc = "read_file"
    /\ \E ok \in BOOLEAN :
          IF ok THEN /\ elf_data' = kernel_file.bytes
                     /\ pc' = "parse"
                     /\ fatal' = fatal
                ELSE /\ Halt("read_file")
                     /\ UNCHANGED elf_data
    /\ UNCHANGED <<overflow_checks, kernel_file, program_headers, idx,
                   addr_start, addr_end, page_cnt, alloc_requests, alloc_result,
                   scratch_classes, mem, src_read, copied, entry_calls>>

\* elf::Elf::parse(elf_data).unwrap()
Parse ==
    /\ pc = "parse"
    /\ \E ok \in BOOLEAN :
          IF ok THEN /\ program_headers' = kernel_file.phdrs
                     /\ pc' = "plan"
                     /\ fatal' = fatal
                ELSE /\ Halt("parse")
                     /\ UNCHANGED program_headers
    /\ idx' = 1
    /\ addr_start' = usize_MAX
    /\ addr_end' = 0
    /\ UNCHANGED <<overflow_checks, kernel_file, elf_data, page_cnt,
                   alloc_requests, alloc_result, scratch_classes, mem,
                   src_read, copied, entry_calls>>

---------------------------------------------------------------------------
(* load_elf: address range *)

IsLoad(phdr) == phdr.p_type = PT_LOAD

\* one iteration of the first loop over prog.program_headers
PlanStep ==
    /\ pc = "plan"
    /\ idx <= Len(program_headers)
    /\ LET phdr == program_headers[idx] IN
       IF ~IsLoad(phdr)
       THEN /\ idx' = idx + 1
            /\ UNCHANGED <<pc, fatal, addr_start, addr_end>>
       ELSE IF overflow_checks /\ AddOverflows(phdr.p_vaddr, phdr.p_memsz)
       THEN /\ Halt("overflow")
            /\ UNCHANGED <<idx, addr_start, addr_end>>
       ELSE /\ addr_start' = usize_min(addr_start, phdr.p_vaddr)
            /\ addr_end' = usize_max(addr_end, WrappingAdd(phdr.p_vaddr, phdr.p_memsz))
            /\ idx' = idx + 1
            /\ UNCHANGED <<pc, fatal>>
    /\ UNCHANGED <<overflow_checks, kernel_file, elf_data, program_headers,
                   page_cnt, alloc_requests, alloc_result, scratch_classes,
                   mem, src_read, copied, entry_calls>>

---------------------------------------------------------------------------
(* load_elf: page allocation *)

RangeSize == WrappingSub(addr_end, addr_start)
PageCount(memsz) == WrappingAdd(memsz, page_size - 1) \div page_size
PlanOverflows ==
    \/ SubOverflows(addr_end, addr_start)
    \/ AddOverflows(RangeSize, page_size - 1)

AllocRequest(addr, ty, count) == [addr |-> addr, ty |-> ty, count |-> count]

\* seeded fault: a refused fixed-address request is followed by a second request
\* and the load goes on
AllocateWithFallback ==
    /\ pc = "plan"
    /\ idx > Len(program_headers)
    /\ IF overflow_checks /\ PlanOverflows
       THEN /\ Halt("overflow")
            /\ UNCHANGED <<idx, page_cnt, alloc_requests, alloc_result>>
       ELSE /\ page_cnt' = PageCount(RangeSize)
            /\ \E ok \in BOOLEAN :
                 alloc_requests' =
                    IF ok
                    THEN <<AllocRequest(addr_start, LOADER_DATA, PageCount(RangeSize))>>
                    ELSE <<AllocRequest(addr_start, LOADER_DATA, PageCount(RangeSize)),
                           AllocRequest(0, LOADER_DATA, PageCount(RangeSize))>>
            /\ alloc_result' = "ok"
            /\ pc' = "copy"
            /\ fatal' = fatal
            /\ idx' = 1
    /\ UNCHANGED <<overflow_checks, kernel_file, elf_data, program_headers,
                   addr_start, addr_end, scratch_classes, mem, src_read,
                   copied, entry_calls>>

\* memsz, page_cnt, boot::allocate_pages(Address(addr_start), LOADER_DATA, page_cnt).unwrap()
Allocate ==
    /\ pc = "plan"
    /\ idx > Len(program_headers)
    /\ IF overflow_checks /\ PlanOverflows
       THEN /\ Halt("overflow")
            /\ UNCHANGED <<idx, page_cnt, alloc_requests, alloc_result>>
       ELSE /\ page_cnt' = PageCount(RangeSize)
            /\ alloc_requests' =
                 Append(alloc_requests,
                        AllocRequest(addr_start, LOADER_DATA, PageCount(RangeSize)))
            /\ \E ok \in BOOLEAN :
                 IF ok THEN /\ alloc_result' = "ok"
                            /\ pc' = "copy"
                            /\ fatal' = fatal
                            /\ idx' = 1
                       ELSE /\ alloc_result' = "err"
                            /\ Halt("allocate_pages")
                            /\ UNCHANGED idx
    /\ UNCHANGED <<overflow_checks, kernel_file, elf_data, program_headers,
                   addr_start, addr_end, scratch_classes, mem, src_read,
                   copied, entry_calls>>

---------------------------------------------------------------------------
(* load_elf: copy of the loadable segments *)

\* address of dest[k] for dest = from_raw_parts_mut(p_vaddr as *mut u8, p_memsz)
DestAddr(phdr, k) == (phdr.p_vaddr + k) % Modulus
Window(phdr) == {DestAddr(phdr, k) : k \in 0..(phdr.p_memsz - 1)}
DestIndex(phdr, a) == (a - phdr.p_vaddr + Modulus) % Modulus

\* from_raw_parts_mut over a window that wraps around the address space is
\* undefined behaviour: the build may fault or write the wrapped addresses
WindowWraps(phdr) == phdr.p_vaddr + phdr.p_memsz > Modulus

\* dest[..p_filesz]: the slice index is checked against dest.len()
DestSliceInBounds(phdr) == phdr.p_filesz <= phdr.p_memsz

\* seeded fault: the source range is taken without a bounds check (get_unchecked)
SliceUnchecked(lo, hi, len) == TRUE

\* &elf_data[lo..hi]: the range is checked against elf_data.len()
SliceInBounds(lo, hi, len) == lo <= hi /\ hi <= len

\* elf_data[i] (1-based); total, so that it is defined for every index
ByteAt(data, i) == IF i \in DOMAIN data THEN data[i] ELSE 0

\* indices of elf_data (1-based) in elf_data[lo..hi]
SliceIndices(lo, hi) == (lo + 1)..hi

\* seeded fault: the tail dest[p_filesz..] is left as it was
SegmentWriteNoFill(m, phdr, data) ==
    LET filePart == {DestAddr(phdr, k) : k \in 0..(phdr.p_filesz - 1)} IN
    [a \in DOMAIN m \cup filePart |->
        IF a \in filePart
        THEN ByteAt(data, phdr.p_offset + DestIndex(phdr, a) + 1)
        ELSE m[a]]

\* seeded fault: p_offset is taken as a physical address, so the bytes are read
\* from memory instead of from the file buffer
SegmentWriteFromMemory(m, phdr, data) ==
    [a \in DOMAIN m \cup Window(phdr) |->
        IF a \in Window(phdr)
        THEN IF DestIndex(phdr, a) < phdr.p_filesz
             THEN LET src == (phdr.p_offset + DestIndex(phdr, a)) % Modulus IN
                  IF src \in DOMAIN m THEN m[src] ELSE 204
             ELSE 0
        ELSE m[a]]

\* dest[..p_filesz].copy_from_slice(&elf_data[p_offset..]); dest[p_filesz..].fill(0)
SegmentWrite(m, phdr, data) ==
    [a \in DOMAIN m \cup Window(phdr) |->
        IF a \in Window(phdr)
        THEN IF DestIndex(phdr, a) < phdr.p_filesz
             THEN ByteAt(data, phdr.p_offset + DestIndex(phdr, a) + 1)
             ELSE 0
        ELSE m[a]]

CopyOk(phdr) ==
    /\ mem' = SegmentWrite(mem, phdr, elf_data)
    /\ src_read' = src_read \cup
                     SliceIndices(phdr.p_offset,
                                  WrappingAdd(phdr.p_offset, phdr.p_filesz))
    /\ copied' = copied \cup {idx}
    /\ idx' = idx + 1
    /\ UNCHANGED <<pc, fatal>>

CopyPanic(reason) ==
    /\ Halt(reason)
    /\ UNCHANGED <<mem, src_read, copied, idx>>

\* seeded fault: a segment that fails a check is skipped instead of halting the load
CopySkipMalformed(phdr) ==
    IF /\ DestSliceInBounds(phdr)
       /\ ~AddOverflows(phdr.p_offset, phdr.p_filesz)
       /\ SliceInBounds(phdr.p_offset, phdr.p_offset + phdr.p_filesz, Len(elf_data))
    THEN CopyOk(phdr)
    ELSE /\ idx' = idx + 1
         /\ UNCHANGED <<pc, fatal, mem, src_read, copied>>

\* the checks of one loadable segment, in evaluation order, then the writes
CopyChecked(phdr) ==
    IF ~DestSliceInBounds(phdr)
    THEN CopyPanic("bounds")
    ELSE IF overflow_checks /\ AddOverflows(phdr.p_offset, phdr.p_filesz)
    THEN CopyPanic("overflow")
    ELSE IF ~SliceInBounds(phdr.p_offset,
                           WrappingAdd(phdr.p_offset, phdr.p_filesz),
                           Len(elf_data))
    THEN CopyPanic("bounds")
    ELSE CopyOk(phdr)

\* one iteration of the second loop over prog.program_headers
CopyStep ==
    /\ pc = "copy"
    /\ idx <= Len(program_headers)
    /\ LET phdr == program_headers[idx] IN
       IF ~IsLoad(phdr)
       THEN /\ idx' = idx + 1
            /\ UNCHANGED <<pc, fatal, mem, src_read, copied>>
       ELSE IF WindowWraps(phdr)
       THEN \/ CopyPanic("fault")
            \/ CopyChecked(phdr)
       ELSE CopyChecked(phdr)
    /\ UNCHANGED <<overflow_checks, kernel_file, elf_data, program_headers,
                   addr_start, addr_end, page_cnt, alloc_requests, alloc_result,
                   scratch_classes, entry_calls>>

---------------------------------------------------------------------------
(* load_kernel returns the entry point; main jumps *)

\* load_elf returns prog, load_kernel transmutes prog.entry and returns Ok(entry)
ReturnEntry ==
    /\ pc = "copy"
    /\ idx > Len(program_headers)
    /\ pc' = "loaded"
    /\ UNCHANGED <<fatal, overflow_checks, kernel_file, elf_data, program_headers,
                   idx, addr_start, addr_end, page_cnt, alloc_requests,
                   alloc_result, scratch_classes, mem, src_read, copied,
                   entry_calls>>

\* entry()
Jump ==
    /\ pc = "loaded"
    /\ entry_calls' = entry_calls + 1
    /\ pc' = "kernel"
    /\ UNCHANGED <<fatal, overflow_checks, kernel_file, elf_data, program_headers,
                   idx, addr_start, addr_end, page_cnt, alloc_requests,
                   alloc_result, scratch_classes, mem, src_read, copied>>

\* the kernel returned: "All done.", stall, Status::SUCCESS
KernelReturns ==
    /\ pc = "kernel"
    /\ pc' = "done"
    /\ UNCHANGED <<fatal, overflow_checks, kernel_file, elf_data, program_headers,
                   idx, addr_start, addr_end, page_cnt, alloc_requests,
                   alloc_result, scratch_classes, mem, src_read, copied,
                   entry_calls>>

Next ==
    \/ SaveMemoryMap
    \/ ReadFile
    \/ Parse
    \/ PlanStep
    \/ Allocate
    \/ CopyStep
    \/ ReturnEntry
    \/ Jump
    \/ KernelReturns

Spec == Init /\ [][Next]_vars

---------------------------------------------------------------------------
(* Vocabulary of the properties *)

LoadIdx(tbl) == {i \in DOMAIN tbl : IsLoad(tbl[i])}
HasLoadable(tbl) == LoadIdx(tbl) # {}
SetMin(S) == CHOOSE v \in S : \A w \in S : v <= w
SetMax(S) == CHOOSE v \in S : \A w \in S : v >= w
CeilDiv(n, d) == (n + d - 1) \div d

\* the range of the image in unbounded arithmetic
MathStart(tbl) == SetMin({tbl[i].p_vaddr : i \in LoadIdx(tbl)})
MathEnd(tbl) == SetMax({tbl[i].p_vaddr + tbl[i].p_memsz : i \in LoadIdx(tbl)})

PlanDone ==
    \/ pc = "plan" /\ idx > Len(program_headers)
    \/ pc \in {"copy", "loaded", "kernel", "done"}
    \/ alloc_requests # <<>>
CopyDone == pc \in {"loaded", "kernel", "done"}

\* the segment's file bytes and zero tail are what memory holds
Materialized(phdr) ==
    /\ Window(phdr) \subseteq DOMAIN mem
    /\ \A k \in 0..(phdr.p_memsz - 1) :
          mem[DestAddr(phdr, k)] =
             IF k < phdr.p_filesz THEN ByteAt(elf_data, phdr.p_offset + k + 1) ELSE 0

OverlappedLater(tbl, i) ==
    \E j \in LoadIdx(tbl) : j > i /\ Window(tbl[i]) \cap Window(tbl[j]) # {}

\* p_offset + p_filesz exceeds the length of the source buffer
ReadsPastEnd(phdr) == phdr.p_offset + phdr.p_filesz > Len(elf_data)

---------------------------------------------------------------------------
(* Properties *)

\* C1: with at least one loadable segment, the range requested is
\* start = min p_vaddr, end = max (p_vaddr + p_memsz) over the loadable
\* segments only, and the request is for ceil((end - start) / 4096) pages.
C1_RangeAndPageCount ==
    (alloc_requests # <<>> /\ HasLoadable(program_headers)) =>
        /\ addr_start = MathStart(program_headers)
        /\ addr_end = MathEnd(program_headers)
        /\ alloc_requests[1].addr = MathStart(program_headers)
        /\ alloc_requests[1].count =
              CeilDiv(MathEnd(program_headers) - MathStart(program_headers), page_size)

\* C2: an image without loadable segments fails at planning time: no page
\* allocation is requested, nothing is written, the entry point is not
\* produced or invoked.
C2_NoLoadableFailsAtPlanning ==
    ~HasLoadable(kernel_file.phdrs) =>
        /\ alloc_requests = <<>>
        /\ mem = NoMem
        /\ entry_calls = 0
        /\ pc \notin {"copy", "loaded", "kernel", "done"}

\* C3 as stated: after the copy loop, every loadable segment's file bytes are
\* at [p_vaddr, p_vaddr + p_filesz) and [p_vaddr + p_filesz, p_vaddr + p_memsz)
\* is zero.
C3_EverySegmentMaterialized ==
    CopyDone =>
        \A i \in LoadIdx(program_headers) : Materialized(program_headers[i])

\* C3 amended: after the copy loop, this holds of every loadable segment whose
\* destination window is not overlapped by a loadable segment copied after it.
C3_UnoverlappedSegmentMaterialized ==
    CopyDone =>
        \A i \in LoadIdx(program_headers) :
            ~OverlappedLater(program_headers, i) => Materialized(program_headers[i])

C3_Witness ==
    /\ CopyDone
    /\ \E i, j \in LoadIdx(program_headers) :
          /\ i < j
          /\ ~OverlappedLater(program_headers, i)
          /\ program_headers[i].p_filesz > 0
          /\ program_headers[i].p_memsz > program_headers[i].p_filesz
          /\ program_headers[j].p_memsz > 0

\* C4: a loadable segment whose p_offset + p_filesz exceeds the source buffer
\* length is fatal: no index outside the buffer is ever read, the segment is
\* never copied, the copy loop never gets past it and the load never completes.
C4_OutOfBoundsSegmentIsFatal ==
    /\ src_read \subseteq 1..Len(elf_data)
    /\ \A i \in LoadIdx(program_headers) :
          ReadsPastEnd(program_headers[i]) =>
             /\ i \notin copied
             /\ pc = "copy" => idx <= i
             /\ ~CopyDone
             /\ entry_calls = 0

C4_Witness ==
    /\ pc = "halt"
    /\ fatal = "bounds"
    /\ alloc_result = "ok"
    /\ idx \in LoadIdx(program_headers)
    /\ ReadsPastEnd(program_headers[idx])
    /\ DestSliceInBounds(program_headers[idx])
    /\ ~AddOverflows(program_headers[idx].p_offset, program_headers[idx].p_filesz)
    /\ mem # NoMem

\* C5: at most one allocation is requested, it is for page_cnt pages at
\* addr_start, nothing is written before it succeeded, a load that reaches the
\* copy loop made exactly one, and a refused request halts the loader with
\* nothing written and no second request.
C5_SingleFixedAllocation ==
    /\ Len(alloc_requests) <= 1
    /\ alloc_requests # <<>> =>
          /\ alloc_requests[1].addr = addr_start
          /\ alloc_requests[1].count = page_cnt
          /\ alloc_result # "none"
    /\ alloc_result # "ok" => mem = NoMem
    /\ pc \in {"copy", "loaded", "kernel", "done"} =>
          Len(alloc_requests) = 1 /\ alloc_result = "ok"
    /\ alloc_result = "err" =>
          pc = "halt" /\ fatal = "allocate_pages" /\ entry_calls = 0

C5_Witness ==
    /\ alloc_result = "err"
    /\ Len(alloc_requests) = 1
    /\ HasLoadable(program_headers)
    /\ alloc_requests[1].count > 1

\* C6: the entry point is invoked at most once, and only after the allocation
\* succeeded and the copy of every loadable segment completed; after any
\* failure it is never invoked.
C6_EntryOnlyAfterFullLoad ==
    /\ entry_calls <= 1
    /\ entry_calls >= 1 =>
          /\ alloc_result = "ok"
          /\ fatal = "none"
          /\ copied = LoadIdx(program_headers)
          /\ \A i \in LoadIdx(program_headers) :
                Window(program_headers[i]) \subseteq DOMAIN mem
    /\ fatal # "none" => entry_calls = 0 /\ pc = "halt"
    /\ pc \in {"kernel", "done"} => entry_calls = 1

C6_Witness ==
    /\ entry_calls = 1
    /\ Cardinality(LoadIdx(program_headers)) >= 2
    /\ \E i \in LoadIdx(program_headers) :
          program_headers[i].p_memsz > program_headers[i].p_filesz

\* C7: the kernel image is allocated with a memory class the loader does not
\* use for its own scratch memory.
C7_KernelClassDistinct ==
    \A i \in DOMAIN alloc_requests : alloc_requests[i].ty \notin scratch_classes

\* the copy loop run once more over the same buffer and header table, from
\* header i on, starting from memory m
RECURSIVE CopyLoop(_, _)
CopyLoop(m, i) ==
    IF i > Len(program_headers) THEN m
    ELSE IF IsLoad(program_headers[i])
         THEN CopyLoop(SegmentWrite(m, program_headers[i], elf_data), i + 1)
         ELSE CopyLoop(m, i + 1)

\* C8: running the copy loop a second time over the same source buffer and
\* program header table leaves memory as the first run left it.
C8_SecondCopyChangesNothing ==
    CopyDone => CopyLoop(mem, 1) = mem

C8_Witness ==
    /\ CopyDone
    /\ \E i, j \in LoadIdx(program_headers) :
          /\ i < j
          /\ Window(program_headers[i]) \cap Window(program_headers[j]) # {}
          /\ program_headers[i].p_filesz > 0
          /\ program_headers[j].p_memsz > program_headers[j].p_filesz

\* C9: with at least one loadable segment, addr_start <= addr_end once the
\* range has been computed.
C9_StartLeEnd ==
    (PlanDone /\ HasLoadable(program_headers)) => addr_start <= addr_end

\* C10: every address written lies in [start, start + page_count * 4096) of
\* the allocation that was requested (a region that runs past the top of the
\* address space is taken to continue at address 0).
C10_WritesInsideAllocation ==
    \A a \in DOMAIN mem :
        /\ alloc_requests # <<>>
        /\ (a - alloc_requests[1].addr + Modulus) % Modulus
              < alloc_requests[1].count * page_size

====
